---- MODULE Spec2Model ----
(***************************************************************************)
(* Resume Tailor Bot (src/app.py): the keyword match analyzer (tokenize,  *)
(* analyze_match), the PDF / LLM helpers and the Streamlit script run.    *)
(*                                                                         *)
(* A Python str is a sequence of Unicode code points (naturals).           *)
(***************************************************************************)
EXTENDS Integers, Sequences, FiniteSets, TLC

VARIABLES
    pc,             \* position of the function under check: "ready" / "done"
    text,           \* tokenize: its argument
    tokens,         \* tokenize: its return value
    resume_text,    \* analyze_match argument; the script's resume_text
    job_text,       \* analyze_match argument
    returned,       \* analyze_match: what the call returned (or raised)
    uploaded_file,  \* st.file_uploader widget value
    pasted_text,    \* st.text_area "Or paste text:" widget value
    job_input,      \* st.text_area "Paste Job Description:" widget value
    button,         \* the button whose press triggered the last script run
    session_state,  \* st.session_state: a function from the keys present
    run_status,     \* how the last script run ended
    prompt,         \* the prompt handed to ask_llama in the last run
    result,         \* what ask_llama returned in the last run
    download,       \* data of the st.download_button rendered in the last run
    llm_call        \* how the chat completion of the last run ended

vars == <<pc, text, tokens, resume_text, job_text, returned, uploaded_file,
          pasted_text, job_input, button, session_state, run_status, prompt,
          result, download, llm_call>>

tokVars == <<text, tokens>>
matchVars == <<job_text, returned>>
appVars == <<uploaded_file, pasted_text, job_input, button, session_state,
             run_status, prompt, result, download, llm_call>>

-----------------------------------------------------------------------------
(* Bounds of the model.                                                    *)

MaxLen == 4          \* longest text handed to tokenize in SpecTok
MaxResumeLen == 4    \* longest resume text in SpecAnalyze
MaxJobLen == 5       \* longest job text in SpecAnalyze
MaxJobWords == 45    \* most words of a job text in SpecWords
MaxDistinct == 12    \* most distinct words of a job text with repeats (SpecWords)
MaxRepeats == 2      \* most repeated words appended to such a job text
MaxAppLen == 2       \* longest widget text in SpecApp
MaxPages == 1        \* most pages of an uploaded PDF in SpecApp

-----------------------------------------------------------------------------
(* Characters and strings.                                                 *)

LowerCase == <<"a","b","c","d","e","f","g","h","i","j","k","l","m",
               "n","o","p","q","r","s","t","u","v","w","x","y","z">>
UpperCase == <<"A","B","C","D","E","F","G","H","I","J","K","L","M",
               "N","O","P","Q","R","S","T","U","V","W","X","Y","Z">>

\* ord(ch) for the characters the literals of app.py use.
Ord(ch) ==
    IF \E i \in 1..26 : LowerCase[i] = ch
    THEN 96 + (CHOOSE i \in 1..26 : LowerCase[i] = ch)
    ELSE IF \E i \in 1..26 : UpperCase[i] = ch
    THEN 64 + (CHOOSE i \in 1..26 : UpperCase[i] = ch)
    ELSE IF ch = " " THEN 32
    ELSE IF ch = ":" THEN 58
    ELSE IF ch = "?" THEN 63
    ELSE 0

\* A string literal, written one character per element.
Str(cs) == [i \in 1..Len(cs) |-> Ord(cs[i])]

SPACE == 32
DIGIT_ONE == 49
UNDERSCORE == 95
E_ACUTE == 233            \* U+00E9, a lowercase non-ASCII letter
CAPITAL_E_ACUTE == 201    \* U+00C9
CAPITAL_I_DOT == 304      \* U+0130, whose lowercase is two code points
COMBINING_DOT == 775      \* U+0307, a combining mark (not alphanumeric)
KELVIN_SIGN == 8490       \* U+212A, whose lowercase is ASCII k

IsAsciiLower(c) == c >= 97 /\ c <= 122
IsAsciiUpper(c) == c >= 65 /\ c <= 90
IsAsciiLetter(c) == IsAsciiLower(c) \/ IsAsciiUpper(c)
IsAsciiDigit(c) == c >= 48 /\ c <= 57

\* str.isalnum() beyond ASCII, for the non-ASCII characters of the model.
NonAsciiAlnum == {E_ACUTE, CAPITAL_E_ACUTE, CAPITAL_I_DOT, KELVIN_SIGN}

\* \w of a str pattern: [a-zA-Z0-9_] and every Unicode alphanumeric.
IsWordChar(c) ==
    IsAsciiLetter(c) \/ IsAsciiDigit(c) \/ c = UNDERSCORE \/ c \in NonAsciiAlnum

\* str.lower() of one character (a sequence: U+0130 lowers to two).
LowerChar(c) ==
    IF IsAsciiUpper(c) THEN <<c + 32>>
    ELSE IF c = CAPITAL_E_ACUTE THEN <<E_ACUTE>>
    ELSE IF c = CAPITAL_I_DOT THEN <<105, COMBINING_DOT>>
    ELSE IF c = KELVIN_SIGN THEN <<107>>
    ELSE <<c>>

\* str.lower(): every character lowered, in order (halving keeps the
\* evaluation shallow on long texts).
RECURSIVE lower(_)
lower(s) ==
    IF s = <<>> THEN <<>>
    ELSE IF Len(s) = 1 THEN LowerChar(s[1])
    ELSE LET h == Len(s) \div 2
         IN lower(SubSeq(s, 1, h)) \o lower(SubSeq(s, h + 1, Len(s)))

\* Lexicographic order of str (code point by code point), Python's <.
StrLess(u, v) ==
    \/ \E i \in 1..Len(u) :
          /\ i <= Len(v)
          /\ u[i] < v[i]
          /\ \A j \in 1..(i - 1) : u[j] = v[j]
    \/ /\ Len(u) < Len(v)
       /\ \A j \in 1..Len(u) : u[j] = v[j]

\* All strings over an alphabet of at most n characters.
StringsUpTo(alphabet, n) == UNION {[1..k -> alphabet] : k \in 0..n}

-----------------------------------------------------------------------------
(* tokenize.                                                               *)

STOPWORDS == {
    Str(<<"t","h","e">>), Str(<<"a">>), Str(<<"a","n">>), Str(<<"a","n","d">>),
    Str(<<"o","r">>), Str(<<"t","o">>), Str(<<"o","f">>), Str(<<"i","n">>),
    Str(<<"o","n">>), Str(<<"f","o","r">>), Str(<<"w","i","t","h">>),
    Str(<<"a","t">>), Str(<<"b","y">>), Str(<<"i","s">>),
    Str(<<"a","r","e">>), Str(<<"w","a","s">>), Str(<<"w","e","r","e">>),
    Str(<<"b","e">>), Str(<<"t","h","i","s">>), Str(<<"t","h","a","t">>),
    Str(<<"a","s">>), Str(<<"i","t">>), Str(<<"f","r","o","m">>),
    Str(<<"w","i","l","l">>), Str(<<"y","o","u">>), Str(<<"y","o","u","r">>),
    Str(<<"o","u","r">>), Str(<<"w","e">>), Str(<<"t","h","e","y">>),
    Str(<<"t","h","e","m">>), Str(<<"t","h","e","i","r">>), Str(<<"i">>),
    Str(<<"m","e">>), Str(<<"m","y">>) }

\* The pattern without its \b: every position counts as a boundary.
NoBoundary(s, p) == TRUE

\* \b at position p (between s[p-1] and s[p]): exactly one side is a word char.
IsBoundary(s, p) ==
    LET before == p > 1 /\ IsWordChar(s[p - 1])
        after == p <= Len(s) /\ IsWordChar(s[p])
    IN before # after

\* How many characters of [a-zA-Z] follow from position p (the greedy {2,}).
RECURSIVE GreedyLetters(_, _)
GreedyLetters(s, p) ==
    IF p <= Len(s) /\ IsAsciiLetter(s[p]) THEN 1 + GreedyLetters(s, p + 1) ELSE 0

\* The pattern \b[a-zA-Z]{2,}\b tried at position p: the position after the
\* match, or 0. The quantifier is greedy and backtracks down to 2 letters.
MatchAt(s, p) ==
    LET g == GreedyLetters(s, p)
        ends == {n \in 2..g : IsBoundary(s, p + n)}
    IN IF IsBoundary(s, p) /\ ends # {}
       THEN p + (CHOOSE n \in ends : \A m \in ends : m <= n)
       ELSE 0

\* re.findall scans left to right: at the search position it tries the
\* pattern; a match is collected and the search resumes where it ended, a
\* failure moves the search on by one. Scan runs that loop over the positions
\* lo..hi-1 with the search standing at pos >= lo, and gives the matches
\* found and where the search stands afterwards (the range is halved, which
\* keeps the evaluation shallow on long texts; the order of the steps is the
\* loop's).
RECURSIVE Scan(_, _, _, _)
Scan(s, pos, lo, hi) ==
    IF hi <= lo THEN [found |-> <<>>, pos |-> pos]
    ELSE IF hi = lo + 1
    THEN IF pos > lo THEN [found |-> <<>>, pos |-> pos]  \* inside a match
         ELSE LET e == MatchAt(s, lo)
              IN IF e = 0 THEN [found |-> <<>>, pos |-> lo + 1]
                 ELSE [found |-> <<SubSeq(s, lo, e - 1)>>, pos |-> e]
    ELSE LET mid == (lo + hi) \div 2
             left == Scan(s, pos, lo, mid)
             right == Scan(s, left.pos, mid, hi)
         IN [found |-> left.found \o right.found, pos |-> right.pos]

findall(s) == Scan(s, 1, 1, Len(s) + 1).found

\* The stopword filter left out.
KeepAll(w) == TRUE

NotStopword(w) == w \notin STOPWORDS

tokenize(t) == SelectSeq(findall(lower(t)), NotStopword)

-----------------------------------------------------------------------------
(* Python float (IEEE 754 binary64) arithmetic, as far as analyze_match    *)
(* uses it. A positive float is [m, e]: m its 53 significand bits, most    *)
(* significant first (m[1] = 1), and e the exponent of the last bit, so    *)
(* its value is m * 2^e. Zero is FloatZero. Significands are kept as bit    *)
(* sequences and worked on a few bits at a time, so that every number the  *)
(* evaluation meets is small.                                              *)

MantissaBits == 53
QuotChunk == 9       \* quotient bits produced per division step
MulChunk == 14       \* significand bits multiplied per step

FloatZero == [m |-> <<>>, e |-> 0]

RECURSIVE Pow2(_)
Pow2(n) == IF n = 0 THEN 1 ELSE 2 * Pow2(n - 1)

\* The value of a short bit sequence.
RECURSIVE BitsToInt(_)
BitsToInt(bits) ==
    IF bits = <<>> THEN 0
    ELSE 2 * BitsToInt(SubSeq(bits, 1, Len(bits) - 1)) + bits[Len(bits)]

\* n in binary, without leading zeros.
RECURSIVE IntToBits(_)
IntToBits(n) == IF n = 0 THEN <<>> ELSE IntToBits(n \div 2) \o <<n % 2>>

\* n < 2^w in binary, on exactly w bits.
PadBits(n, w) == [i \in 1..w |-> (n \div Pow2(w - i)) % 2]

AnyBitSet(bits) == \E i \in 1..Len(bits) : bits[i] = 1

\* bits + 1; one bit longer when every bit was set.
BitsInc(bits) ==
    IF \A i \in 1..Len(bits) : bits[i] = 1
    THEN <<1>> \o [i \in 1..Len(bits) |-> 0]
    ELSE LET z == CHOOSE i \in 1..Len(bits) :
                    bits[i] = 0 /\ \A j \in (i + 1)..Len(bits) : bits[j] = 1
         IN [i \in 1..Len(bits) |->
                IF i < z THEN bits[i] ELSE IF i = z THEN 1 ELSE 0]

\* Round the exact value bits * 2^e (plus, when sticky, a non-zero amount
\* below its last bit) to the nearest float, ties to even. Len(bits) > 53.
RoundToFloat(bits, e, sticky) ==
    LET kept == SubSeq(bits, 1, MantissaBits)
        guard == bits[MantissaBits + 1]
        below == sticky \/ AnyBitSet(SubSeq(bits, MantissaBits + 2, Len(bits)))
        up == guard = 1 /\ (below \/ kept[MantissaBits] = 1)
        inc == BitsInc(kept)
        e1 == e + (Len(bits) - MantissaBits)
    IN IF ~up THEN [m |-> kept, e |-> e1]
       ELSE IF Len(inc) = MantissaBits THEN [m |-> inc, e |-> e1]
       ELSE [m |-> SubSeq(inc, 1, MantissaBits), e |-> e1 + 1]

\* Long division: the next steps * QuotChunk bits of r / den (0 <= r < den)
\* appended to acc, and the remainder left.
RECURSIVE QuotBits(_, _, _, _)
QuotBits(r, den, steps, acc) ==
    IF steps = 0 THEN [bits |-> acc, rem |-> r]
    ELSE LET scaled == r * Pow2(QuotChunk)
         IN QuotBits(scaled % den, den, steps - 1,
                     acc \o PadBits(scaled \div den, QuotChunk))

\* int / int (true division) of 0 <= k, 0 < n: the float nearest to k / n.
\* n = 0 raises ZeroDivisionError, modelled by the caller.
TrueDiv(k, n) ==
    IF k = 0 THEN FloatZero
    ELSE LET down == k < n
             s == IF down
                  THEN CHOOSE i \in 0..20 :
                         k * Pow2(i) >= n /\ (i = 0 \/ k * Pow2(i - 1) < n)
                  ELSE CHOOSE i \in 0..20 :
                         n * Pow2(i) <= k /\ n * Pow2(i + 1) > k
             num == IF down THEN k * Pow2(s) ELSE k
             den == IF down THEN n ELSE n * Pow2(s)
             \* num / den is in [1, 2): its leading bit is 1
             steps == 6
             q == QuotBits(num - den, den, steps, <<1>>)
         IN RoundToFloat(q.bits,
                         (IF down THEN 0 - s ELSE s) - steps * QuotChunk,
                         q.rem # 0)

\* bits * c for a small natural c > 0, MulChunk bits at a time from the
\* least significant end, with a carry.
RECURSIVE MulBits(_, _, _)
MulBits(bits, c, carry) ==
    IF bits = <<>> THEN IntToBits(carry)
    ELSE LET w == IF Len(bits) < MulChunk THEN Len(bits) ELSE MulChunk
             low == BitsToInt(SubSeq(bits, Len(bits) - w + 1, Len(bits)))
             t == c * low + carry
         IN MulBits(SubSeq(bits, 1, Len(bits) - w), c, t \div Pow2(w))
            \o PadBits(t % Pow2(w), w)

\* float * int for a small natural c > 0 (c is exactly representable).
FloatMul(x, c) ==
    IF x.m = <<>> THEN FloatZero
    ELSE LET prod == MulBits(x.m, c, 0)
         IN IF Len(prod) > MantissaBits THEN RoundToFloat(prod, x.e, FALSE)
            ELSE [m |-> prod, e |-> x.e]

\* round(x) of a float 0 <= x < 2^30: the nearest int, ties to even.
PyRound(x) ==
    IF x.m = <<>> THEN 0
    ELSE LET ib == MantissaBits + x.e     \* number of integer bits
         IN IF ib < 0 THEN 0
            ELSE LET whole == BitsToInt(SubSeq(x.m, 1, ib))
                     half == x.m[ib + 1]
                     below == AnyBitSet(SubSeq(x.m, ib + 2, MantissaBits))
                 IN IF half = 1 /\ (below \/ whole % 2 = 1)
                    THEN whole + 1 ELSE whole

-----------------------------------------------------------------------------
(* analyze_match.                                                          *)

TOP_N == 10

\* set(seq)
ToSet(seq) == {seq[i] : i \in 1..Len(seq)}

\* seq[:n]
Take(seq, n) == SubSeq(seq, 1, IF Len(seq) < n THEN Len(seq) ELSE n)

\* The order a reversed comparison would give.
StrGreater(u, v) == StrLess(v, u)

\* x < y of two tokens, as sorted() compares them.
TokenBefore(u, v) == StrLess(u, v)

\* sorted(list(S)) of a set of str: ascending, so the k-th element is the
\* one that k - 1 elements come before.
SortedList(S) ==
    LET Place(before) ==
            [k \in 1..Cardinality(S) |-> CHOOSE x \in S : before[x] = k - 1]
    IN CHOOSE r \in {Place(before) : before \in
                {[x \in S |-> Cardinality({y \in S : TokenBefore(y, x)})]}} :
          TRUE

\* The argument is evaluated once, then sorted.
sorted(S) == CHOOSE r \in {SortedList(x) : x \in {S}} : TRUE

\* The guard left out.
NeverGuarded(jd_tokens) == FALSE

\* `if not jd_tokens`
NoJobTokens(jd_tokens) == jd_tokens = {}

\* jd_tokens.intersection(res_tokens)
Intersection(jd_tokens, res_tokens) == jd_tokens \cap res_tokens

\* The factor 100 left out.
FractionScore(n_overlap, n_jd) == PyRound(TrueDiv(n_overlap, n_jd))

\* int(round(len(overlap) / len(jd_tokens) * 100)), in float arithmetic.
MatchScore(n_overlap, n_jd) == PyRound(FloatMul(TrueDiv(n_overlap, n_jd), 100))

\* freq_job after the loop over the tokens. A dict keeps insertion order:
\* a word is inserted where it first occurs and counted at every occurrence,
\* so freq_job is the sequence of <<word, count>> in order of first
\* occurrence.
CountList(words) ==
    LET Entries(firsts) ==
            [k \in 1..Cardinality(firsts) |->
                LET i == CHOOSE f \in firsts :
                            Cardinality({j \in firsts : j < f}) = k - 1
                IN <<words[i],
                     Cardinality({j \in 1..Len(words) : words[j] = words[i]})>>]
    IN CHOOSE r \in {Entries(firsts) : firsts \in
                {{i \in 1..Len(words) :
                     \A j \in 1..(i - 1) : words[j] # words[i]}}} :
          TRUE

\* The argument is evaluated once, then counted.
CountWords(words) == CHOOSE r \in {CountList(x) : x \in {words}} : TRUE

\* The order without reverse=True.
CountAscending(x, y) == x[2] < y[2]

\* key=lambda x: x[1], reverse=True: x goes before y when its count is larger.
CountBefore(x, y) == x[2] > y[2]

\* sorted(items, key=..., reverse=True): a stable sort, so an item stands
\* behind the items that go before it and behind the earlier items of equal
\* key.
StableSort(items) ==
    LET Place(ahead) ==
            [k \in 1..Len(items) |->
                items[CHOOSE i \in 1..Len(items) : ahead[i] = k - 1]]
    IN CHOOSE r \in {Place(ahead) : ahead \in
                {[i \in 1..Len(items) |->
                    Cardinality({j \in 1..Len(items) :
                                    \/ CountBefore(items[j], items[i])
                                    \/ /\ j < i
                                       /\ ~CountBefore(items[i], items[j])})]}} :
          TRUE

\* The argument is evaluated once, then sorted.
SortByCount(items) == CHOOSE r \in {StableSort(x) : x \in {items}} : TRUE

\* What a call returned: raised = "" and the four values, or the exception.
Return(match_score, overlap, missing, top_job_keywords) ==
    [raised |-> "", match_score |-> match_score, overlap |-> overlap,
     missing |-> missing, top_job_keywords |-> top_job_keywords]

Raise(exception) ==
    [raised |-> exception, match_score |-> 0, overlap |-> <<>>,
     missing |-> <<>>, top_job_keywords |-> <<>>]

\* analyze_match from `if not jd_tokens` on, given the two token sets and
\* tokenize(job_text).
MatchOf(jd_tokens, res_tokens, job_words) ==
    LET overlap == Intersection(jd_tokens, res_tokens)
        missing == jd_tokens \ res_tokens
        freq_job == CountWords(job_words)
        top_job_keywords == Take(SortByCount(freq_job), TOP_N)
    IN IF NoJobTokens(jd_tokens) THEN Return(0, <<>>, <<>>, <<>>)
       ELSE IF Cardinality(jd_tokens) = 0 THEN Raise("ZeroDivisionError")
       ELSE Return(MatchScore(Cardinality(overlap), Cardinality(jd_tokens)),
                   sorted(overlap), sorted(missing), top_job_keywords)

analyze_match(resume, job) ==
    CHOOSE r \in {MatchOf(ToSet(jd), ToSet(res), again) :
                     jd \in {tokenize(job)}, res \in {tokenize(resume)},
                     again \in {tokenize(job)}} : TRUE

-----------------------------------------------------------------------------
(* SpecTok: tokenize applied to every text over TokAlphabet.               *)

TokAlphabet == {Ord("a"), Ord("n"), Ord("A"), DIGIT_ONE, UNDERSCORE, SPACE,
                E_ACUTE, CAPITAL_I_DOT}

\* Python's None and a value that is not None.
None == <<>>
Some(v) == <<v>>

\* st.file_uploader returning None: nothing is uploaded.
NoFile == [present |-> FALSE, opens |-> FALSE, pages |-> <<>>]

\* No prompt was built.
NoPrompt == [template |-> "none", resume |-> <<>>, job |-> <<>>]

\* The application before its script has run for the first time.
IdleApp ==
    /\ uploaded_file = NoFile /\ pasted_text = <<>> /\ job_input = <<>>
    /\ button = "none" /\ session_state = <<>> /\ run_status = "none"
    /\ prompt = NoPrompt /\ result = None /\ download = None
    /\ llm_call = "none"

Idle ==
    /\ resume_text = <<>> /\ job_text = <<>> /\ returned = <<>>
    /\ IdleApp

InitTok ==
    /\ pc = "ready"
    /\ text \in StringsUpTo(TokAlphabet, MaxLen)
    /\ tokens = <<>>
    /\ Idle

Tokenize ==
    /\ pc = "ready"
    /\ tokens' = tokenize(text)
    /\ pc' = "done"
    /\ UNCHANGED <<text, resume_text, matchVars, appVars>>

NextTok == Tokenize

SpecTok == InitTok /\ [][NextTok]_vars

-----------------------------------------------------------------------------
(* SpecAnalyze: analyze_match applied to every pair of short texts.        *)

MatchAlphabet == {Ord("a"), Ord("n"), SPACE}

InitAnalyze ==
    /\ pc = "ready"
    /\ resume_text \in StringsUpTo(MatchAlphabet, MaxResumeLen)
    /\ job_text \in StringsUpTo(MatchAlphabet, MaxJobLen)
    /\ returned = <<>>
    /\ text = <<>> /\ tokens = <<>>
    /\ IdleApp

AnalyzeMatch ==
    /\ pc = "ready"
    /\ returned' = analyze_match(resume_text, job_text)
    /\ pc' = "done"
    /\ UNCHANGED <<resume_text, job_text, tokVars, appVars>>

NextAnalyze == AnalyzeMatch

SpecAnalyze == InitAnalyze /\ [][NextAnalyze]_vars

-----------------------------------------------------------------------------
(* SpecWords: analyze_match applied to texts of many words. Word i is the  *)
(* i-th two-letter word aa, ab, ..., az, ba, ... (some are stopwords); a   *)
(* text is a list of words joined by single spaces.                        *)

Word(i) == <<97 + (i \div 26), 97 + (i % 26)>>

JoinWords(ids) ==
    [i \in 1..(3 * Len(ids) - 1) |->
        IF i % 3 = 0 THEN SPACE ELSE Word(ids[(i + 2) \div 3])[i % 3]]

FirstWords(n) == [i \in 1..n |-> i - 1]

\* The words from word a up to word MaxJobWords.
LastWords(a) == [i \in 1..(MaxJobWords + 1 - a) |-> a + i - 1]

\* A job of the first n words against a resume of the words from word a on:
\* they share the words a..n-1, and each has words the other lacks.
PrefixInputs ==
    {<<JoinWords(LastWords(a)), JoinWords(FirstWords(n))>> :
        n \in 0..MaxJobWords, a \in 0..(MaxJobWords + 1)}

\* A job of the first d words followed by up to MaxRepeats more words, each
\* the first or one of the last two of the MaxDistinct words.
RepeatInputs ==
    {<<JoinWords(<<>>), JoinWords(FirstWords(d) \o tail)>> :
        d \in 1..MaxDistinct,
        tail \in UNION {[1..r -> {0, MaxDistinct - 2, MaxDistinct - 1}] :
                          r \in 0..MaxRepeats}}

InitWords ==
    /\ pc = "ready"
    /\ \E in \in PrefixInputs \cup RepeatInputs :
          resume_text = in[1] /\ job_text = in[2]
    /\ returned = <<>>
    /\ text = <<>> /\ tokens = <<>>
    /\ IdleApp

NextWords == AnalyzeMatch

SpecWords == InitWords /\ [][NextWords]_vars

-----------------------------------------------------------------------------
(* Claims about tokenize (SpecTok).                                        *)

\* The maximal runs of ASCII letters of s, left to right, as index ranges.
RECURSIVE LetterRunsFrom(_, _)
LetterRunsFrom(s, p) ==
    IF p > Len(s) THEN <<>>
    ELSE IF ~IsAsciiLetter(s[p]) THEN LetterRunsFrom(s, p + 1)
    ELSE LET q == CHOOSE j \in p..Len(s) :
                    /\ \A k \in p..j : IsAsciiLetter(s[k])
                    /\ (j = Len(s) \/ ~IsAsciiLetter(s[j + 1]))
         IN <<[from |-> p, to |-> q]>> \o LetterRunsFrom(s, q + 1)

LetterRuns(s) == LetterRunsFrom(s, 1)

\* A run whose neighbours are the ends of s or characters outside \w.
Separated(s, r) ==
    /\ (r.from = 1 \/ ~IsWordChar(s[r.from - 1]))
    /\ (r.to = Len(s) \/ ~IsWordChar(s[r.to + 1]))

\* The words of the runs in rs, of length >= 2 and outside the stopword set.
RECURSIVE RunWords(_, _)
RunWords(s, rs) ==
    IF rs = <<>> THEN <<>>
    ELSE LET r == Head(rs)
             w == SubSeq(s, r.from, r.to)
         IN (IF Len(w) >= 2 /\ w \notin STOPWORDS THEN <<w>> ELSE <<>>)
            \o RunWords(s, Tail(rs))

RECURSIVE SeparatedRuns(_, _)
SeparatedRuns(s, rs) ==
    IF rs = <<>> THEN <<>>
    ELSE (IF Separated(s, Head(rs)) THEN <<Head(rs)>> ELSE <<>>)
         \o SeparatedRuns(s, Tail(rs))

IsPunctuation(c) ==
    ~IsAsciiLetter(c) /\ ~IsAsciiDigit(c) /\ c \notin NonAsciiAlnum

OnlyStopwordsAndPunctuation(t) ==
    /\ \A i \in 1..Len(t) : IsAsciiLetter(t[i]) \/ IsPunctuation(t[i])
    /\ \A i \in 1..Len(LetterRuns(t)) :
          LET r == LetterRuns(t)[i]
          IN lower(SubSeq(t, r.from, r.to)) \in STOPWORDS

\* C1: every token is made of lowercase ASCII letters only, has length >= 2
\* and is no stopword; the empty text, and a text made only of stopwords and
\* punctuation, tokenize to the empty sequence.
C1_TokensWellFormed ==
    pc = "done" =>
        /\ \A i \in 1..Len(tokens) :
              /\ \A k \in 1..Len(tokens[i]) : IsAsciiLower(tokens[i][k])
              /\ Len(tokens[i]) >= 2
              /\ tokens[i] \notin STOPWORDS
        /\ (text = <<>> => tokens = <<>>)
        /\ (OnlyStopwordsAndPunctuation(text) => tokens = <<>>)

\* A text with an uppercase letter and a stopword, of which one token is kept.
C1_Witness ==
    /\ pc = "done"
    /\ Len(tokens) = 1
    /\ \E i \in 1..Len(text) : IsAsciiUpper(text[i])
    /\ \E i \in 1..Len(LetterRuns(text)) :
          LET r == LetterRuns(text)[i]
          IN lower(SubSeq(text, r.from, r.to)) \in STOPWORDS

\* C2 as stated: the tokens are all the maximal letter runs of length >= 2 of
\* the lowercased text, minus stopwords, in order (every non-letter separates).
C2_AllRunsEmitted ==
    pc = "done" =>
        tokens = RunWords(lower(text), LetterRuns(lower(text)))

\* C2 as amended: the tokens are, in order, the maximal letter runs of length
\* >= 2 of the lowercased text that have no word character (digit, underscore,
\* non-ASCII letter) directly next to them, minus stopwords; a run next to a
\* word character is not emitted, and a run of length 1 is dropped.
C2_SeparatedRunsEmitted ==
    pc = "done" =>
        tokens = RunWords(lower(text),
                          SeparatedRuns(lower(text), LetterRuns(lower(text))))

\* A text with a letter run of length >= 2 glued to a digit, and a lone letter.
C2_Witness ==
    /\ pc = "done"
    /\ tokens = <<>>
    /\ \E i \in 1..Len(text) : text[i] = DIGIT_ONE
    /\ \E i \in 1..Len(LetterRuns(text)) :
          LET r == LetterRuns(text)[i]
          IN r.to > r.from /\ ~Separated(text, r)
    /\ \E i \in 1..Len(LetterRuns(text)) :
          LetterRuns(text)[i].to = LetterRuns(text)[i].from

-----------------------------------------------------------------------------
(* Claims about analyze_match (SpecAnalyze, SpecWords).                    *)

JobSet == ToSet(tokenize(job_text))
ResumeSet == ToSet(tokenize(resume_text))

StrictlyAscending(seq) ==
    \A i \in 1..(Len(seq) - 1) : StrLess(seq[i], seq[i + 1])

\* C3 as stated: equal token sets give score 100 and nothing missing.
C3_EqualSetsScore100 ==
    (pc = "done" /\ ResumeSet = JobSet) =>
        returned.match_score = 100 /\ returned.missing = <<>>

\* C3 as amended: equal and non-empty token sets give score 100 and nothing
\* missing (two empty token sets give score 0).
C3_EqualNonEmptySetsScore100 ==
    (pc = "done" /\ ResumeSet = JobSet /\ JobSet # {}) =>
        /\ returned.raised = ""
        /\ returned.match_score = 100
        /\ returned.missing = <<>>

\* Two different texts with the same non-empty token set.
C3_Witness ==
    /\ pc = "done"
    /\ ResumeSet = JobSet /\ JobSet # {}
    /\ resume_text # job_text
    /\ returned.match_score = 100

\* C4: analyze_match never raises, and for a job text without tokens it
\* returns exactly 0, [], [], {} whatever the resume text is.
C4_EmptyJobReturnsZero ==
    pc = "done" =>
        /\ returned.raised = ""
        /\ (JobSet = {} => returned = Return(0, <<>>, <<>>, <<>>))

\* A non-empty job text without tokens against a resume that has tokens.
C4_Witness ==
    /\ pc = "done"
    /\ job_text # <<>> /\ JobSet = {} /\ ResumeSet # {}
    /\ returned = Return(0, <<>>, <<>>, <<>>)

\* C5: overlap lists exactly the job tokens found in the resume and missing
\* exactly the job tokens not found there; the two are disjoint, together
\* they are the job token set, and each is in ascending order without repeats.
C5_OverlapMissingPartition ==
    pc = "done" =>
        /\ ToSet(returned.overlap) = JobSet \cap ResumeSet
        /\ ToSet(returned.missing) = JobSet \ ResumeSet
        /\ ToSet(returned.overlap) \cap ToSet(returned.missing) = {}
        /\ ToSet(returned.overlap) \cup ToSet(returned.missing) = JobSet
        /\ StrictlyAscending(returned.overlap)
        /\ StrictlyAscending(returned.missing)

\* Several tokens on each side, and a resume token the job does not have.
C5_Witness ==
    /\ pc = "done"
    /\ Len(returned.overlap) >= 2 /\ Len(returned.missing) >= 2
    /\ ResumeSet \ JobSet # {}

\* num / den rounded to the nearest integer, exact halves to the even one.
HalfEven(num, den) ==
    LET q == num \div den
        r == num % den
    IN IF 2 * r < den THEN q
       ELSE IF 2 * r > den THEN q + 1
       ELSE IF q % 2 = 0 THEN q ELSE q + 1

\* C6: for a non-empty job token set the score is an integer in 0..100 equal
\* to 100 * |overlap| / |jobSet| rounded to the nearest integer, exact halves
\* to the even integer.
C6_ScoreIsRoundedPercentage ==
    (pc = "done" /\ JobSet # {}) =>
        /\ returned.match_score \in 0..100
        /\ returned.match_score =
              HalfEven(100 * Cardinality(JobSet \cap ResumeSet),
                       Cardinality(JobSet))

\* C7: topJobKeywords has min(10, distinct job tokens) entries in
\* non-increasing count order; each count is the number of occurrences of its
\* token in tokenize(J), and no token left out occurs more often than one
\* that is included.
C7_TopKeywords ==
    pc = "done" =>
        LET top == returned.top_job_keywords
            keys == {top[i][1] : i \in 1..Len(top)}
            seq == tokenize(job_text)
            distinct == ToSet(seq)
            count == [w \in distinct |->
                         Cardinality({i \in 1..Len(seq) : seq[i] = w})]
        IN /\ Len(top) = IF Cardinality(distinct) < 10
                         THEN Cardinality(distinct) ELSE 10
           /\ Cardinality(keys) = Len(top)
           /\ \A i \in 1..(Len(top) - 1) : top[i][2] >= top[i + 1][2]
           /\ \A i \in 1..Len(top) :
                 top[i][1] \in distinct /\ top[i][2] = count[top[i][1]]
           /\ \A w \in distinct \ keys :
                 \A i \in 1..Len(top) : count[w] <= top[i][2]

\* Twelve distinct job tokens, the last one seen twice: it is listed first
\* and two tokens seen once are left out.
C7_Witness ==
    /\ pc = "done"
    /\ Cardinality(JobSet) = 12
    /\ Len(returned.top_job_keywords) = 10
    /\ returned.top_job_keywords[1] = <<Word(11), 2>>
    /\ returned.top_job_keywords[10][2] = 1

-----------------------------------------------------------------------------
(* The Streamlit script: one run of src/app.py per user event.             *)

\* The text of the one extractable page of the model.
PAGE_TEXT == Str(<<"a", "a">>)

\* page.extract_text(): a text, None, or an exception.
PageOutcomes == {[outcome |-> "text", text |-> PAGE_TEXT],
                 [outcome |-> "None", text |-> <<>>],
                 [outcome |-> "raise", text |-> <<>>]}

\* A file pdfplumber.open() rejects.
Unopenable == [present |-> TRUE, opens |-> FALSE, pages |-> <<>>]

\* The values st.file_uploader can return.
Files ==
    {NoFile, Unopenable}
        \cup {[present |-> TRUE, opens |-> TRUE, pages |-> ps] :
                ps \in StringsUpTo(PageOutcomes, MaxPages)}

\* The texts typed into the two text areas.
AppAlphabet == {Ord("a"), SPACE}
AppTexts == StringsUpTo(AppAlphabet, MaxAppLen)

\* client.chat.completions.create(): a reply, or an exception with message.
Completions ==
    {[ok |-> TRUE, content |-> Str(<<"o", "k">>), message |-> <<>>],
     [ok |-> FALSE, content |-> <<>>, message |-> <<CAPITAL_I_DOT>>]}

\* for page in pdf.pages: text += page.extract_text() or ""
RECURSIVE PagesText(_)
PagesText(pages) ==
    IF pages = <<>> THEN <<>>
    ELSE (IF Head(pages).outcome = "text" THEN Head(pages).text ELSE <<>>)
             \o PagesText(Tail(pages))

\* An exception of pdfplumber.open or of a page leaves the function.
extract_text_from_pdf(file) ==
    IF ~file.opens
    THEN [raised |-> TRUE, text |-> <<>>]
    ELSE IF \E i \in DOMAIN file.pages : file.pages[i].outcome = "raise"
    THEN [raised |-> TRUE, text |-> <<>>]
    ELSE [raised |-> FALSE, text |-> PagesText(file.pages)]

ERROR_PREFIX ==
    Str(<<"E","r","r","o","r"," ","c","o","n","n","e","c","t","i","n","g",
          " ","t","o"," ","A","I",":"," ">>)

\* ask_llama without its try / except.
ask_llama_uncaught(a_prompt, completion) ==
    IF completion.ok
    THEN [raised |-> FALSE, value |-> completion.content]
    ELSE [raised |-> TRUE, value |-> <<>>]

ask_llama(a_prompt, completion) ==
    IF completion.ok
    THEN [raised |-> FALSE, value |-> completion.content]
    ELSE [raised |-> FALSE, value |-> ERROR_PREFIX \o completion.message]

\* text.encode('latin-1', 'replace').decode('latin-1'), laid out as a PDF.
build_pdf(a_text) ==
    [pdf_text |-> [i \in 1..Len(a_text) |->
                     IF a_text[i] > 255 THEN Ord("?") ELSE a_text[i]]]

\* if "<key>" not in st.session_state: st.session_state["<key>"] = None
SESSION_KEYS == {"analysis", "improved_bullets", "tailored_resume"}

InitSessionState(ss) ==
    [k \in SESSION_KEYS |-> IF k \in DOMAIN ss THEN ss[k] ELSE None]

\* st.session_state[key] = value
Store(ss, key, value) ==
    [k \in DOMAIN ss \cup {key} |-> IF k = key THEN Some(value) ELSE ss[k]]

\* The dict the analyze handler stores.
AnalysisDict(r) ==
    [match_score |-> r.match_score, overlap |-> r.overlap,
     missing |-> r.missing, top_job_keywords |-> r.top_job_keywords]

\* A guard that only looks at the button.
PressedOnly(btn, resume, job) == btn = "analyze"

\* if analyze_btn and resume_text and job_input
AnalyzeGuard(btn, resume, job) ==
    btn = "analyze" /\ resume # <<>> /\ job # <<>>

\* if optimize_btn and resume_text
OptimizeGuard(btn, resume) == btn = "optimize" /\ resume # <<>>

\* if full_resume_btn and resume_text and job_input
FullResumeGuard(btn, resume, job) ==
    btn = "full_resume" /\ resume # <<>> /\ job # <<>>

BulletsPrompt(resume) ==
    [template |-> "bullets", resume |-> Take(resume, 2000), job |-> <<>>]

TailorPrompt(resume, job) ==
    [template |-> "tailor", resume |-> Take(resume, 3000),
     job |-> Take(job, 2000)]

\* What a run leaves behind.
Outcome(status, resume, ss, a_prompt, a_result, a_download, call) ==
    [run_status |-> status, resume_text |-> resume, session_state |-> ss,
     prompt |-> a_prompt, result |-> a_result, download |-> a_download,
     llm_call |-> call]

CallOutcome(completion) == IF completion.ok THEN "ok" ELSE "error"

\* Lines 183-225, with resume_text and the session state of line 178.
Handlers(btn, resume, job, ss, completion) ==
    IF AnalyzeGuard(btn, resume, job)
    THEN LET r == analyze_match(resume, job)
         IN  IF r.raised # ""
             THEN Outcome("exception", resume, ss, NoPrompt, None, None, "none")
             ELSE Outcome("completed", resume,
                          Store(ss, "analysis", AnalysisDict(r)),
                          NoPrompt, None, None, "none")
    ELSE IF OptimizeGuard(btn, resume)
    THEN LET p == BulletsPrompt(resume)
             r == ask_llama(p, completion)
         IN  IF r.raised
             THEN Outcome("exception", resume, ss, p, None, None,
                          CallOutcome(completion))
             ELSE Outcome("completed", resume,
                          Store(ss, "improved_bullets", r.value),
                          p, Some(r.value), None, CallOutcome(completion))
    ELSE IF FullResumeGuard(btn, resume, job)
    THEN LET p == TailorPrompt(resume, job)
             r == ask_llama(p, completion)
         IN  IF r.raised
             THEN Outcome("exception", resume, ss, p, None, None,
                          CallOutcome(completion))
             ELSE Outcome("completed", resume,
                          Store(ss, "tailored_resume", r.value),
                          p, Some(r.value), Some(build_pdf(r.value)),
                          CallOutcome(completion))
    ELSE Outcome("completed", resume, ss, NoPrompt, None, None, "none")

\* The script from top to bottom, given what the widgets return.
Script(file, pasted, job, btn, secrets_ok, completion) ==
    IF ~secrets_ok
    THEN Outcome("stopped", <<>>, session_state, NoPrompt, None, None, "none")
    ELSE LET extraction == IF file.present
                           THEN extract_text_from_pdf(file)
                           ELSE [raised |-> FALSE, text |-> pasted]
         IN  IF extraction.raised
             THEN Outcome("exception", <<>>, session_state, NoPrompt, None,
                          None, "none")
             ELSE Handlers(btn, extraction.text, job,
                           InitSessionState(session_state), completion)

\* One run: the widget values, then the script (run once).  A text area
\* that a completed run did not render loses its value.
Run(file, pasted, job, btn, secrets_ok, completion) ==
    \E out \in {Script(file, pasted, job, btn, secrets_ok, completion)} :
        /\ uploaded_file' = file
        /\ job_input' = job
        /\ button' = btn
        /\ pasted_text' = IF out.run_status = "completed" /\ file.present
                          THEN <<>> ELSE pasted
        /\ run_status' = out.run_status
        /\ resume_text' = out.resume_text
        /\ session_state' = out.session_state
        /\ prompt' = out.prompt
        /\ result' = out.result
        /\ download' = out.download
        /\ llm_call' = out.llm_call
        /\ UNCHANGED <<pc, tokVars, matchVars>>

\* What the last run put on the page.
UploaderRendered == run_status \in {"completed", "exception"}
FormRendered == run_status = "completed"
PasteRendered == run_status = "completed" /\ ~uploaded_file.present

NoCompletion == [ok |-> TRUE, content |-> <<>>, message |-> <<>>]

\* The page is loaded, or rerun without touching a widget.
Rerun ==
    \E secrets_ok \in BOOLEAN :
        Run(uploaded_file, pasted_text, job_input, "none", secrets_ok,
            NoCompletion)

\* A file is uploaded, replaced or removed.
ChangeUpload ==
    /\ UploaderRendered
    /\ \E file \in Files \ {uploaded_file}, secrets_ok \in BOOLEAN :
        Run(file, pasted_text, job_input, "none", secrets_ok, NoCompletion)

\* The "Or paste text:" area is edited.
EditResume ==
    /\ PasteRendered
    /\ \E t \in AppTexts \ {pasted_text}, secrets_ok \in BOOLEAN :
        Run(uploaded_file, t, job_input, "none", secrets_ok, NoCompletion)

\* The "Paste Job Description:" area is edited.
EditJob ==
    /\ FormRendered
    /\ \E t \in AppTexts \ {job_input}, secrets_ok \in BOOLEAN :
        Run(uploaded_file, pasted_text, t, "none", secrets_ok, NoCompletion)

PressAnalyze ==
    /\ FormRendered
    /\ \E secrets_ok \in BOOLEAN :
        Run(uploaded_file, pasted_text, job_input, "analyze", secrets_ok,
            NoCompletion)

PressOptimize ==
    /\ FormRendered
    /\ \E secrets_ok \in BOOLEAN, completion \in Completions :
        Run(uploaded_file, pasted_text, job_input, "optimize", secrets_ok,
            completion)

PressFullResume ==
    /\ FormRendered
    /\ \E secrets_ok \in BOOLEAN, completion \in Completions :
        Run(uploaded_file, pasted_text, job_input, "full_resume", secrets_ok,
            completion)

InitApp ==
    /\ pc = "ready"
    /\ text = <<>> /\ tokens = <<>>
    /\ Idle

NextApp ==
    \/ Rerun
    \/ ChangeUpload
    \/ EditResume
    \/ EditJob
    \/ PressAnalyze
    \/ PressOptimize
    \/ PressFullResume

SpecApp == InitApp /\ [][NextApp]_vars

-----------------------------------------------------------------------------
(* Claims about the script runs.                                           *)

\* st.session_state["analysis"], None while the key is absent.
StoredAnalysis ==
    IF "analysis" \in DOMAIN session_state
    THEN session_state["analysis"] ELSE None

HasPrefix(s, p) == Len(s) >= Len(p) /\ SubSeq(s, 1, Len(p)) = p

\* The last run reached the resume input block with an uploaded file whose
\* extraction fails.
ExtractionFailed ==
    /\ run_status \in {"completed", "exception"}
    /\ uploaded_file.present
    /\ extract_text_from_pdf(uploaded_file).raised

\* C8: when the text extraction of an uploaded PDF fails (the file cannot be
\* opened or a page cannot be decoded), the resume text of the run is the
\* empty string, no error leaves the extraction step, and the run goes on
\* to the analysis logic.
C8_ExtractionFailureYieldsEmptyText ==
    ExtractionFailed => resume_text = <<>> /\ run_status = "completed"

\* The last run got to the handlers with Analyze pressed.
AnalysisRequested == button = "analyze" /\ run_status = "completed"

\* C9 as stated: after every analysis request (Analyze pressed) the stored
\* analysis is the MatchResult of the resume and job text of that request.
C9_AnalysisMatchesRequest ==
    AnalysisRequested =>
        StoredAnalysis = Some(AnalysisDict(analyze_match(resume_text, job_input)))

\* C9: a run that reaches the analyze handler with Analyze pressed and a
\* non-empty resume text and job text replaces the stored analysis, as a
\* whole, by the MatchResult of those two texts; every other run leaves the
\* stored analysis as it was.
C9_AnalysisReplacedOrKept ==
    [][IF AnalysisRequested' /\ resume_text' # <<>> /\ job_input' # <<>>
       THEN StoredAnalysis' =
                Some(AnalysisDict(analyze_match(resume_text', job_input')))
       ELSE StoredAnalysis' = StoredAnalysis]_vars

\* C9, the case: an analysis request has replaced the stored analysis by
\* the result of its own inputs, a full match.
C9_Witness ==
    /\ AnalysisRequested
    /\ resume_text # <<>> /\ job_input # <<>>
    /\ StoredAnalysis # None
    /\ StoredAnalysis[1].match_score = 100
    /\ StoredAnalysis[1].overlap = <<PAGE_TEXT>>

\* C10: a failing chat completion never aborts the run: ask_llama returns a
\* string that begins with "Error connecting to AI: ", and the Rewrite and
\* Generate handlers store what ask_llama returned under improved_bullets
\* and tailored_resume (Generate also builds the download from it), for a
\* failed call as for a successful one, and leave the stored analysis alone.
C10_LlmFailureIsStored ==
    [][llm_call' # "none" =>
        /\ run_status' = "completed"
        /\ result' # None
        /\ llm_call' = "error" => HasPrefix(result'[1], ERROR_PREFIX)
        /\ button' \in {"optimize", "full_resume"}
        /\ button' = "optimize" =>
              /\ session_state'["improved_bullets"] = result'
              /\ session_state'["tailored_resume"]
                     = InitSessionState(session_state)["tailored_resume"]
              /\ download' = None
        /\ button' = "full_resume" =>
              /\ session_state'["tailored_resume"] = result'
              /\ session_state'["improved_bullets"]
                     = InitSessionState(session_state)["improved_bullets"]
              /\ download' = Some(build_pdf(result'[1]))
        /\ StoredAnalysis' = StoredAnalysis]_vars

\* C10, the case: Generate was pressed, the completion failed, the error
\* string is stored and offered for download, and an analysis is stored.
C10_Witness ==
    /\ llm_call = "error"
    /\ button = "full_resume"
    /\ run_status = "completed"
    /\ session_state["tailored_resume"] = result
    /\ HasPrefix(result[1], ERROR_PREFIX)
    /\ download = Some(build_pdf(result[1]))
    /\ StoredAnalysis # None

====
